---- MODULE Spec2Model ----
(***************************************************************************)
(* Model of the ERC20-style ink! contract `Teste` (src/src/lib.rs).        *)
(*                                                                         *)
(* The contract storage is total_supply, balances and allowances; the      *)
(* environment keeps the log of emitted events.  Every external message    *)
(* (deploy, total_supply, balance_of, allowance, transfer, approve,        *)
(* transfer_from) is one action.  `call` records the last message (its     *)
(* caller, arguments and return value) and `pre` the storage and the log   *)
(* right before it, so that the effect of a message is a state predicate.  *)
(* `delegated` is a history variable: per (owner, spender) the value of    *)
(* the latest approve and what successful transfer_from calls of the       *)
(* spender have moved out of the owner's balance since.                    *)
(*                                                                         *)
(* Balance is an unsigned fixed-width integer (u128 for DefaultSrmlTypes). *)
(* The model keeps the width, scaled down to 0..MaxBalance: an addition    *)
(* whose mathematical result exceeds MaxBalance either wraps (a build      *)
(* without overflow checks) or panics (a build with them); a panicking     *)
(* message traps and none of its storage writes or events is kept.         *)
(***************************************************************************)
EXTENDS Integers, Sequences, FiniteSets, TLC

\* ------------------------------------------------------------------ bounds
\* Largest value of the (scaled-down) Balance type.
MaxBalance == 3
\* Number of state-changing messages (deploy included) in one execution.
MaxCalls == 3
\* The same in the longer executions of SpecDeep.
MaxCallsDeep == 4

\* ------------------------------------------------------------------- types
\* AccountId values; the names are those of the contract's tests.
Accounts == {"alice", "bob", "charlie"}
Balance == 0..MaxBalance
\* The values of the messages of SpecDeep.
DeepValues == 1..(MaxBalance - 1)
\* Placeholder of a `call` field the message does not have.
NoArg == "-"

VARIABLES deployed, total_supply, balances, allowances, events, call, pre,
          init_value, ncalls, delegated

vars == <<deployed, total_supply, balances, allowances, events, call, pre,
          init_value, ncalls, delegated>>

\* ------------------------------------------------------------ pure helpers
\* Option<AccountId>: None is the empty sequence, Some(a) is <<a>>.
None == <<>>
Some(a) == <<a>>

\* event Transfer { from, to, value }
Transfer(from, to, value) ==
    [event |-> "Transfer", from |-> from, to |-> to, value |-> value]

\* event Approval { owner, spender, value }
Approval(owner, spender, value) ==
    [event |-> "Approval", owner |-> owner, spender |-> spender, value |-> value]

\* storage::HashMap with no entry.
EmptyMap == [k \in {} |-> 0]

\* storage::HashMap::insert: adds the entry or overwrites it.
Insert(map, key, value) ==
    [k \in (DOMAIN map) \cup {key} |-> IF k = key THEN value ELSE map[k]]

\* Arithmetic of the unsigned fixed-width Balance when it wraps.
Wrap(x) == x % (MaxBalance + 1)

\* *self.balances.get(of).unwrap_or(&0)
balance_of_or_zero(bal, of) == IF of \in DOMAIN bal THEN bal[of] ELSE 0

\* allowance_or_zero with the slip of looking up the key (spender, owner).
allowance_or_zero_swapped(al, owner, spender) ==
    IF <<spender, owner>> \in DOMAIN al THEN al[<<spender, owner>>] ELSE 0

\* *self.allowances.get(&(*owner, *spender)).unwrap_or(&0)
allowance_or_zero(al, owner, spender) ==
    IF <<owner, spender>> \in DOMAIN al THEN al[<<owner, spender>>] ELSE 0

\* -------------------------------------------------------------- operations
\* Each operation maps the storage, the log and the arguments to the set of
\* its possible outcomes (more than one only where an addition overflows).

\* deploy with the slip of not storing the total supply.
deploy_no_supply(caller, value) ==
    [total_supply |-> 0,
     balances     |-> Insert(EmptyMap, caller, value),
     events       |-> <<Transfer(None, Some(caller), value)>>]

\* deploy with the slip of naming the caller as the source of the issuance.
deploy_from_caller(caller, value) ==
    [total_supply |-> value,
     balances     |-> Insert(EmptyMap, caller, value),
     events       |-> <<Transfer(Some(caller), Some(caller), value)>>]

\* impl Deploy for Teste
deploy(caller, value) ==
    [total_supply |-> value,
     balances     |-> Insert(EmptyMap, caller, value),
     events       |-> <<Transfer(None, Some(caller), value)>>]

\* transfer_impl with the slip of emitting the event before the balance check.
transfer_impl_emit_first(bal, al, ev, from, to, value) ==
    LET balance_from == balance_of_or_zero(bal, from)
        balance_to   == balance_of_or_zero(bal, to)
        emitted      == Append(ev, Transfer(Some(from), Some(to), value))
        debited      == Insert(bal, from, balance_from - value)
        done         == [ret        |-> "true",
                         balances   |-> Insert(debited, to, Wrap(balance_to + value)),
                         allowances |-> al,
                         events     |-> emitted]
        panic        == [ret |-> "panic", balances |-> debited,
                         allowances |-> al, events |-> emitted]
    IN  IF balance_from < value
        THEN {[ret |-> "false", balances |-> bal, allowances |-> al, events |-> emitted]}
        ELSE IF balance_to + value > MaxBalance
             THEN {done, panic}
             ELSE {done}

\* transfer_impl with the slip of rejecting a value equal to the balance.
transfer_impl_reject_equal(bal, al, ev, from, to, value) ==
    LET balance_from == balance_of_or_zero(bal, from)
        balance_to   == balance_of_or_zero(bal, to)
        debited      == Insert(bal, from, balance_from - value)
        done         == [ret        |-> "true",
                         balances   |-> Insert(debited, to, Wrap(balance_to + value)),
                         allowances |-> al,
                         events     |-> Append(ev, Transfer(Some(from), Some(to), value))]
        panic        == [ret |-> "panic", balances |-> debited,
                         allowances |-> al, events |-> ev]
    IN  IF balance_from <= value
        THEN {[ret |-> "false", balances |-> bal, allowances |-> al, events |-> ev]}
        ELSE IF balance_to + value > MaxBalance
             THEN {done, panic}
             ELSE {done}

\* transfer_impl with the slip of swapping source and destination in the event.
transfer_impl_event_swapped(bal, al, ev, from, to, value) ==
    LET balance_from == balance_of_or_zero(bal, from)
        balance_to   == balance_of_or_zero(bal, to)
        debited      == Insert(bal, from, balance_from - value)
        done         == [ret        |-> "true",
                         balances   |-> Insert(debited, to, Wrap(balance_to + value)),
                         allowances |-> al,
                         events     |-> Append(ev, Transfer(Some(to), Some(from), value))]
        panic        == [ret |-> "panic", balances |-> debited,
                         allowances |-> al, events |-> ev]
    IN  IF balance_from < value
        THEN {[ret |-> "false", balances |-> bal, allowances |-> al, events |-> ev]}
        ELSE IF balance_to + value > MaxBalance
             THEN {done, panic}
             ELSE {done}

\* fn transfer_impl
transfer_impl(bal, al, ev, from, to, value) ==
    LET balance_from == balance_of_or_zero(bal, from)
        balance_to   == balance_of_or_zero(bal, to)
        debited      == Insert(bal, from, balance_from - value)
        done         == [ret        |-> "true",
                         balances   |-> Insert(debited, to, Wrap(balance_to + value)),
                         allowances |-> al,
                         events     |-> Append(ev, Transfer(Some(from), Some(to), value))]
        panic        == [ret |-> "panic", balances |-> debited,
                         allowances |-> al, events |-> ev]
    IN  IF balance_from < value
        THEN {[ret |-> "false", balances |-> bal, allowances |-> al, events |-> ev]}
        ELSE IF balance_to + value > MaxBalance
             THEN {done, panic}
             ELSE {done}

\* pub(external) fn transfer
transfer(bal, al, ev, caller, to, value) ==
    transfer_impl(bal, al, ev, caller, to, value)

\* approve with the slip of adding to the stored allowance.
approve_additive(bal, al, ev, caller, spender, value) ==
    [ret        |-> "true",
     balances   |-> bal,
     allowances |-> Insert(al, <<caller, spender>>,
                           Wrap(allowance_or_zero(al, caller, spender) + value)),
     events     |-> Append(ev, Approval(caller, spender, value))]

\* pub(external) fn approve
approve(bal, al, ev, caller, spender, value) ==
    [ret        |-> "true",
     balances   |-> bal,
     allowances |-> Insert(al, <<caller, spender>>, value),
     events     |-> Append(ev, Approval(caller, spender, value))]

\* transfer_from with the slip of leaving out the allowance check.
transfer_from_unchecked(bal, al, ev, caller, from, to, value) ==
    LET allowance == allowance_or_zero(al, from, caller)
    IN  transfer_impl(bal, Insert(al, <<from, caller>>, Wrap(allowance - value)),
                      ev, from, to, value)

\* transfer_from with the slip of writing the decreased allowance under the
\* key (caller, from).
transfer_from_wrong_entry(bal, al, ev, caller, from, to, value) ==
    LET allowance == allowance_or_zero(al, from, caller)
    IN  IF allowance < value
        THEN {[ret |-> "false", balances |-> bal, allowances |-> al, events |-> ev]}
        ELSE transfer_impl(bal, Insert(al, <<caller, from>>, allowance - value),
                           ev, from, to, value)

\* transfer_from made atomic: the allowance is decreased only when the
\* balance of from covers the value.
transfer_from_atomic(bal, al, ev, caller, from, to, value) ==
    LET allowance == allowance_or_zero(al, from, caller)
    IN  IF allowance < value \/ balance_of_or_zero(bal, from) < value
        THEN {[ret |-> "false", balances |-> bal, allowances |-> al, events |-> ev]}
        ELSE transfer_impl(bal, Insert(al, <<from, caller>>, allowance - value),
                           ev, from, to, value)

\* transfer_from with the slip of using the allowance granted to the
\* destination instead of the one granted to the caller.
transfer_from_allowance_of_to(bal, al, ev, caller, from, to, value) ==
    LET allowance == allowance_or_zero(al, from, to)
    IN  IF allowance < value
        THEN {[ret |-> "false", balances |-> bal, allowances |-> al, events |-> ev]}
        ELSE transfer_impl(bal, Insert(al, <<from, to>>, allowance - value),
                           ev, from, to, value)

\* transfer_from with the slip of debiting the caller instead of from.
transfer_from_debits_caller(bal, al, ev, caller, from, to, value) ==
    LET allowance == allowance_or_zero(al, from, caller)
    IN  IF allowance < value
        THEN {[ret |-> "false", balances |-> bal, allowances |-> al, events |-> ev]}
        ELSE transfer_impl(bal, Insert(al, <<from, caller>>, allowance - value),
                           ev, caller, to, value)

\* transfer_from with the slip of not writing the decreased allowance.
transfer_from_no_decrease(bal, al, ev, caller, from, to, value) ==
    LET allowance == allowance_or_zero(al, from, caller)
    IN  IF allowance < value
        THEN {[ret |-> "false", balances |-> bal, allowances |-> al, events |-> ev]}
        ELSE transfer_impl(bal, al, ev, from, to, value)

\* pub(external) fn transfer_from
transfer_from(bal, al, ev, caller, from, to, value) ==
    LET allowance == allowance_or_zero(al, from, caller)
    IN  IF allowance < value
        THEN {[ret |-> "false", balances |-> bal, allowances |-> al, events |-> ev]}
        ELSE transfer_impl(bal, Insert(al, <<from, caller>>, allowance - value),
                           ev, from, to, value)

\* ------------------------------------------------------------------- state
Snapshot ==
    [total_supply |-> total_supply, balances |-> balances,
     allowances |-> allowances, events |-> events]

NoCall ==
    [op |-> "none", caller |-> NoArg, from |-> NoArg, to |-> NoArg,
     owner |-> NoArg, spender |-> NoArg, value |-> 0, ret |-> "none", out |-> 0]

Init ==
    /\ deployed = FALSE
    /\ total_supply = 0
    /\ balances = EmptyMap
    /\ allowances = EmptyMap
    /\ events = <<>>
    /\ call = NoCall
    /\ pre = [total_supply |-> 0, balances |-> EmptyMap,
              allowances |-> EmptyMap, events |-> <<>>]
    /\ init_value = 0
    /\ ncalls = 0
    /\ delegated = [p \in Accounts \X Accounts |-> [approved |-> 0, moved |-> 0]]

\* The storage and the log after a message with outcome o: a message that
\* panics traps, and the host keeps none of its writes.
Commit(o) ==
    IF o.ret = "panic"
    THEN UNCHANGED <<balances, allowances, events>>
    ELSE /\ balances' = o.balances
         /\ allowances' = o.allowances
         /\ events' = o.events

\* The bookkeeping of delegated spending after a message with outcome o: an
\* approve by owner for spender opens a new grant, a transfer_from by spender
\* that returns true adds its value to what the spender has moved out of
\* owner's balance under the current grant.
Granted(owner, spender, value) ==
    [delegated EXCEPT ![<<owner, spender>>] = [approved |-> value, moved |-> 0]]

Moved(o, owner, spender, value) ==
    IF o.ret = "true"
    THEN [delegated EXCEPT ![<<owner, spender>>].moved = @ + value]
    ELSE delegated

\* The messages, for callers and values drawn from the given sets and while
\* fewer than `limit` state-changing messages have been sent.
DeployBy(callers, values, limit) ==
    /\ ~deployed
    /\ ncalls < limit
    /\ \E caller \in callers, value \in values :
         LET o == deploy(caller, value)
         IN  /\ total_supply' = o.total_supply
             /\ balances' = o.balances
             /\ events' = o.events
             /\ init_value' = value
             /\ call' = [NoCall EXCEPT !.op = "deploy", !.caller = caller,
                                       !.value = value, !.ret = "()"]
    /\ deployed' = TRUE
    /\ pre' = Snapshot
    /\ ncalls' = ncalls + 1
    /\ UNCHANGED <<allowances, delegated>>

TransferBy(callers, values, limit) ==
    /\ deployed
    /\ ncalls < limit
    /\ \E caller \in callers, to \in Accounts, value \in values :
         \E o \in transfer(balances, allowances, events, caller, to, value) :
            /\ Commit(o)
            /\ call' = [NoCall EXCEPT !.op = "transfer", !.caller = caller,
                                      !.from = caller, !.to = to,
                                      !.value = value, !.ret = o.ret]
    /\ pre' = Snapshot
    /\ ncalls' = ncalls + 1
    /\ UNCHANGED <<deployed, total_supply, init_value, delegated>>

ApproveBy(callers, values, limit) ==
    /\ deployed
    /\ ncalls < limit
    /\ \E caller \in callers, spender \in Accounts, value \in values :
         LET o == approve(balances, allowances, events, caller, spender, value)
         IN  /\ Commit(o)
             /\ delegated' = Granted(caller, spender, value)
             /\ call' = [NoCall EXCEPT !.op = "approve", !.caller = caller,
                                       !.owner = caller, !.spender = spender,
                                       !.value = value, !.ret = o.ret]
    /\ pre' = Snapshot
    /\ ncalls' = ncalls + 1
    /\ UNCHANGED <<deployed, total_supply, init_value>>

TransferFromBy(callers, values, limit) ==
    /\ deployed
    /\ ncalls < limit
    /\ \E caller \in callers, from \in Accounts, to \in Accounts, value \in values :
         \E o \in transfer_from(balances, allowances, events, caller, from, to, value) :
            /\ Commit(o)
            /\ delegated' = Moved(o, from, caller, value)
            /\ call' = [NoCall EXCEPT !.op = "transfer_from", !.caller = caller,
                                      !.from = from, !.to = to,
                                      !.value = value, !.ret = o.ret]
    /\ pre' = Snapshot
    /\ ncalls' = ncalls + 1
    /\ UNCHANGED <<deployed, total_supply, init_value>>

Deploy == DeployBy(Accounts, Balance, MaxCalls)

TotalSupply ==
    /\ deployed
    /\ call' = [NoCall EXCEPT !.op = "total_supply", !.ret = "value",
                              !.out = total_supply]
    /\ pre' = Snapshot
    /\ UNCHANGED <<deployed, total_supply, balances, allowances, events,
                   init_value, ncalls, delegated>>

BalanceOf ==
    /\ deployed
    /\ \E owner \in Accounts :
         call' = [NoCall EXCEPT !.op = "balance_of", !.owner = owner,
                                !.ret = "value",
                                !.out = balance_of_or_zero(balances, owner)]
    /\ pre' = Snapshot
    /\ UNCHANGED <<deployed, total_supply, balances, allowances, events,
                   init_value, ncalls, delegated>>

Allowance ==
    /\ deployed
    /\ \E owner \in Accounts, spender \in Accounts :
         call' = [NoCall EXCEPT !.op = "allowance", !.owner = owner,
                                !.spender = spender, !.ret = "value",
                                !.out = allowance_or_zero(allowances, owner, spender)]
    /\ pre' = Snapshot
    /\ UNCHANGED <<deployed, total_supply, balances, allowances, events,
                   init_value, ncalls, delegated>>

TransferCall == TransferBy(Accounts, Balance, MaxCalls)

ApproveCall == ApproveBy(Accounts, Balance, MaxCalls)

TransferFromCall == TransferFromBy(Accounts, Balance, MaxCalls)

Next ==
    \/ Deploy
    \/ TotalSupply
    \/ BalanceOf
    \/ Allowance
    \/ TransferCall
    \/ ApproveCall
    \/ TransferFromCall

Spec == Init /\ [][Next]_vars

\* Longer executions of the state-changing messages alone: alice deploys the
\* largest supply and every later message carries a positive value below it.
DeployDeep == DeployBy({"alice"}, {MaxBalance}, MaxCallsDeep)

TransferDeep == TransferBy(Accounts, DeepValues, MaxCallsDeep)

ApproveDeep == ApproveBy(Accounts, DeepValues, MaxCallsDeep)

TransferFromDeep == TransferFromBy(Accounts, DeepValues, MaxCallsDeep)

NextDeep ==
    \/ DeployDeep
    \/ TransferDeep
    \/ ApproveDeep
    \/ TransferFromDeep

SpecDeep == Init /\ [][NextDeep]_vars

\* ------------------------------------------------------------- observation
RECURSIVE SumOver(_, _)
SumOver(bal, S) ==
    IF S = {} THEN 0
    ELSE LET a == CHOOSE x \in S : TRUE
         IN  balance_of_or_zero(bal, a) + SumOver(bal, S \ {a})

\* sum(balance_of(a) for all accounts a)
SumBalances(bal) == SumOver(bal, Accounts)

\* What the queries of two storages can tell apart.
SameBalances(b1, b2) ==
    \A a \in Accounts : balance_of_or_zero(b1, a) = balance_of_or_zero(b2, a)

SameAllowances(a1, a2) ==
    \A o \in Accounts, s \in Accounts :
        allowance_or_zero(a1, o, s) = allowance_or_zero(a2, o, s)

TypeOK ==
    /\ deployed \in BOOLEAN
    /\ total_supply \in Balance
    /\ DOMAIN balances \subseteq Accounts
    /\ \A a \in DOMAIN balances : balances[a] \in Balance
    /\ DOMAIN allowances \subseteq Accounts \X Accounts
    /\ \A k \in DOMAIN allowances : allowances[k] \in Balance
    /\ ncalls \in 0..MaxCallsDeep

\* Shorthands for the storage before and after the last message.
PreBalance(a) == balance_of_or_zero(pre.balances, a)
PostBalance(a) == balance_of_or_zero(balances, a)
PreAllowance(o, s) == allowance_or_zero(pre.allowances, o, s)
PostAllowance(o, s) == allowance_or_zero(allowances, o, s)

\* The last message left storage and log as they were (as far as any query
\* or observer of the log can tell).
NothingChanged ==
    /\ SameBalances(balances, pre.balances)
    /\ SameAllowances(allowances, pre.allowances)
    /\ total_supply = pre.total_supply
    /\ events = pre.events

\* The last message appended exactly the event e to the log.
EmittedExactly(e) == events = Append(pre.events, e)

\* ------------------------------------------------------------------ claims

\* C1 (Conservation): once deployed, in every reachable state the sum of
\* balance_of(a) over all accounts equals total_supply().
C1_Conservation ==
    deployed => SumBalances(balances) = total_supply

\* C2 (Transfer correctness): transfer by A with (B, v) from a state with
\* balance_of(A) = b returns true and leaves balance_of(A) = b - v and
\* balance_of(B) = old balance_of(B) + v if and only if v <= b; otherwise it
\* returns false and every balance is unchanged.
C2_TransferCorrectness ==
    call.op = "transfer" =>
        LET A == call.caller
            B == call.to
            v == call.value
            b == PreBalance(A)
        IN  /\ (v <= b) <=> /\ call.ret = "true"
                            /\ PostBalance(A) = b - v
                            /\ PostBalance(B) = PreBalance(B) + v
            /\ ~(v <= b) => /\ call.ret = "false"
                            /\ SameBalances(balances, pre.balances)

\* C3 (Self-transfer): transfer by A with to = A and value v where
\* balance_of(A) >= v returns true, leaves balance_of(A) numerically
\* unchanged and emits exactly one Transfer event.
C3_SelfTransfer ==
    (call.op = "transfer" /\ call.to = call.caller
                          /\ PreBalance(call.caller) >= call.value) =>
        /\ call.ret = "true"
        /\ PostBalance(call.caller) = PreBalance(call.caller)
        /\ EmittedExactly(Transfer(Some(call.caller), Some(call.caller), call.value))

\* C4 (Insufficient funds is a pure rejection): whenever transfer or
\* transfer_from returns false because the balance of the source account is
\* less than value, no balance, no allowance and not the total supply has
\* changed and no event was emitted.
C4_InsufficientFundsPureRejection ==
    (/\ call.op \in {"transfer", "transfer_from"}
     /\ call.ret = "false"
     /\ PreBalance(call.from) < call.value
     /\ call.op = "transfer_from" => PreAllowance(call.from, call.caller) >= call.value)
        => NothingChanged

\* C5 (Insufficient allowance is a pure rejection): transfer_from(from, to,
\* value) by caller c in a state with allowance(from, c) < value returns
\* false and changes no balance, no allowance, not the total supply and not
\* the event log, whatever the balance of from is.
C5_InsufficientAllowancePureRejection ==
    (call.op = "transfer_from" /\ PreAllowance(call.from, call.caller) < call.value) =>
        /\ call.ret = "false"
        /\ balances = pre.balances
        /\ allowances = pre.allowances
        /\ total_supply = pre.total_supply
        /\ events = pre.events

\* A transfer_from rejected for its allowance alone: the allowance is not
\* zero but below value, and the balance of from would have covered value.
C5_Witness ==
    /\ call.op = "transfer_from"
    /\ call.ret = "false"
    /\ PreAllowance(call.from, call.caller) > 0
    /\ PreAllowance(call.from, call.caller) < call.value
    /\ PreBalance(call.from) >= call.value
    /\ call.caller # call.from

\* C6 (transfer_from result and effect): transfer_from(from, to, v) by caller
\* c returns true if and only if allowance(from, c) >= v and
\* balance_of(from) >= v held before the call; when it returns true,
\* allowance(from, c) has decreased by exactly v and, for from # to,
\* balance_of(from) has decreased by v and balance_of(to) has increased by v.
C6_TransferFromResultAndEffect ==
    call.op = "transfer_from" =>
        LET c == call.caller
            from == call.from
            to == call.to
            v == call.value
        IN  /\ call.ret = "true" <=> (PreAllowance(from, c) >= v /\ PreBalance(from) >= v)
            /\ call.ret = "true" =>
                 /\ PostAllowance(from, c) = PreAllowance(from, c) - v
                 /\ from # to => /\ PostBalance(from) = PreBalance(from) - v
                                 /\ PostBalance(to) = PreBalance(to) + v

\* C7 (Approve is an absolute set): approve by A with (B, v) returns true,
\* leaves allowance(A, B) = v whatever the allowance was before, emits
\* exactly one event Approval{owner: A, spender: B, value: v}, and changes no
\* balance, no other allowance entry and not the total supply.
C7_ApproveIsAbsolute ==
    call.op = "approve" =>
        LET A == call.caller
            B == call.spender
            v == call.value
        IN  /\ call.ret = "true"
            /\ PostAllowance(A, B) = v
            /\ EmittedExactly(Approval(A, B, v))
            /\ balances = pre.balances
            /\ total_supply = pre.total_supply
            /\ \A o \in Accounts, s \in Accounts :
                 <<o, s>> # <<A, B>> => PostAllowance(o, s) = PreAllowance(o, s)

\* An approve on top of an earlier, different, non-zero allowance of the
\* same pair, where set and sum differ.
C7_Witness ==
    /\ call.op = "approve"
    /\ PreAllowance(call.caller, call.spender) > 0
    /\ call.value > 0
    /\ call.value # PreAllowance(call.caller, call.spender)
    /\ PostAllowance(call.caller, call.spender) = call.value

\* C8 (Event counting): the event log grows by exactly 1 on deploy, on every
\* approve and on every transfer or transfer_from that returns true, and by 0
\* on every transfer or transfer_from that returns false and on every
\* read-only query; the events already in the log are never removed.
C8_EventCounting ==
    LET grown == Len(events) - Len(pre.events)
    IN  /\ Len(events) >= Len(pre.events)
        /\ SubSeq(events, 1, Len(pre.events)) = pre.events
        /\ call.op = "deploy" => grown = 1
        /\ call.op = "approve" => grown = 1
        /\ (call.op \in {"transfer", "transfer_from"} /\ call.ret = "true") => grown = 1
        /\ (call.op \in {"transfer", "transfer_from"} /\ call.ret = "false") => grown = 0
        /\ call.op \in {"total_supply", "balance_of", "allowance"} => grown = 0

\* The scenario of the test events_work followed by a failed transfer: the
\* log holds the issuance and one more event, and a rejected transfer of a
\* positive value has left it at that.
C8_Witness ==
    /\ call.op = "transfer"
    /\ call.ret = "false"
    /\ call.value > 0
    /\ Len(events) = 2
    /\ Len(pre.events) = 2

\* C9 (Issuance): right after deploy(init_value) by D, total_supply() is
\* init_value, balance_of(D) is init_value, every other balance and every
\* allowance is 0, and the log is exactly
\* <<Transfer{from: None, to: Some(D), value: init_value}>>.
C9_Issuance ==
    call.op = "deploy" =>
        LET D == call.caller
            v == call.value
        IN  /\ total_supply = v
            /\ PostBalance(D) = v
            /\ \A a \in Accounts \ {D} : PostBalance(a) = 0
            /\ \A o \in Accounts, s \in Accounts : PostAllowance(o, s) = 0
            /\ events = <<Transfer(None, Some(D), v)>>

\* A deploy of a positive supply by bob (not the account the tests use).
C9_Witness ==
    /\ call.op = "deploy"
    /\ call.caller = "bob"
    /\ call.value = MaxBalance
    /\ PostBalance("bob") = MaxBalance

\* C10 (Total supply is immutable): once deployed with init_value, the stored
\* total supply is init_value in every reachable state and total_supply()
\* returns it.
C10_TotalSupplyImmutable ==
    deployed =>
        /\ total_supply = init_value
        /\ call.op = "total_supply" => call.out = init_value

\* total_supply() asked after a successful transfer_from of a positive value
\* (which followed an approve).
C10_Witness ==
    /\ call.op = "total_supply"
    /\ call.out > 0
    /\ Len(events) = 3
    /\ events[2].event = "Approval"
    /\ events[3].event = "Transfer"
    /\ events[3].value > 0
    /\ events[3].from # events[3].to

\* C11 (Allowance change discipline, I3): an allowance entry (o, s) is
\* changed by a message only if the message is approve by o with spender s
\* (the entry becomes the given value) or transfer_from by s with from = o
\* (the entry decreases by exactly the requested value); transfer changes no
\* allowance entry, and no transfer or transfer_from increases one.
C11_AllowanceChangeDiscipline ==
    /\ \A o \in Accounts, s \in Accounts :
         PostAllowance(o, s) # PreAllowance(o, s) =>
            \/ /\ call.op = "approve"
               /\ call.caller = o
               /\ call.spender = s
               /\ PostAllowance(o, s) = call.value
            \/ /\ call.op = "transfer_from"
               /\ call.caller = s
               /\ call.from = o
               /\ PostAllowance(o, s) = PreAllowance(o, s) - call.value
    /\ call.op = "transfer" => SameAllowances(allowances, pre.allowances)
    /\ call.op \in {"transfer", "transfer_from"} =>
         \A o \in Accounts, s \in Accounts : PostAllowance(o, s) <= PreAllowance(o, s)

\* A transfer_from by a spender other than the owner that has decreased the
\* spender's entry by a positive value and left the owner's grant to the
\* destination alone.
C11_Witness ==
    /\ call.op = "transfer_from"
    /\ call.caller # call.from
    /\ call.value > 0
    /\ PostAllowance(call.from, call.caller) = PreAllowance(call.from, call.caller) - call.value
    /\ PostAllowance(call.caller, call.from) = PreAllowance(call.caller, call.from)

\* C12 (No wraparound): no transfer or transfer_from ever computes a credited
\* balance balance_of(to) + value above the largest Balance, nor a debited
\* balance or a decreased allowance below 0.
C12_NoWraparound ==
    (call.op \in {"transfer", "transfer_from"} /\ call.ret \in {"true", "panic"}) =>
        /\ PreBalance(call.to) + call.value <= MaxBalance
        /\ PreBalance(call.from) - call.value >= 0
        /\ call.op = "transfer_from" =>
             PreAllowance(call.from, call.caller) - call.value >= 0

\* C13 (Zero-value transfer): transfer by A with (B, 0) returns true, emits
\* exactly one Transfer event with value 0 and leaves every balance and
\* every allowance unchanged.
C13_ZeroValueTransfer ==
    (call.op = "transfer" /\ call.value = 0) =>
        /\ call.ret = "true"
        /\ EmittedExactly(Transfer(Some(call.caller), Some(call.to), 0))
        /\ SameBalances(balances, pre.balances)
        /\ SameAllowances(allowances, pre.allowances)

\* A zero-value transfer from an account that holds nothing to another
\* account that has no stored balance.
C13_Witness ==
    /\ call.op = "transfer"
    /\ call.value = 0
    /\ call.ret = "true"
    /\ call.caller # call.to
    /\ PreBalance(call.caller) = 0
    /\ call.to \notin DOMAIN pre.balances
    /\ Len(events) = Len(pre.events) + 1

\* C14 (Allowance consumed on a failed debit): transfer_from(from, to, v) by
\* c with allowance(from, c) >= v and balance_of(from) < v returns false,
\* emits no event, changes no balance, and leaves allowance(from, c)
\* decreased by v.
C14_AllowanceConsumedOnFailedDebit ==
    (/\ call.op = "transfer_from"
     /\ PreAllowance(call.from, call.caller) >= call.value
     /\ PreBalance(call.from) < call.value) =>
        /\ call.ret = "false"
        /\ events = pre.events
        /\ balances = pre.balances
        /\ PostAllowance(call.from, call.caller) =
              PreAllowance(call.from, call.caller) - call.value

\* bob spends from alice more than alice holds but within alice's grant.
C14_Witness ==
    /\ call.op = "transfer_from"
    /\ call.caller # call.from
    /\ call.value > 0
    /\ PreAllowance(call.from, call.caller) > call.value
    /\ PreBalance(call.from) < call.value
    /\ call.ret = "false"
    /\ PostAllowance(call.from, call.caller) > 0

\* C15 (Spender identity): transfer_from is authorised by the allowance
\* entry (from, caller) alone: it returns true only if that entry covers the
\* value, it changes no entry that from has granted to another spender (the
\* destination included), and a caller whose entry is 0 moves no positive
\* amount out of from.
C15_SpenderIdentity ==
    call.op = "transfer_from" =>
        /\ call.ret = "true" => PreAllowance(call.from, call.caller) >= call.value
        /\ \A s \in Accounts \ {call.caller} :
             PostAllowance(call.from, s) = PreAllowance(call.from, s)
        /\ (PreAllowance(call.from, call.caller) = 0 /\ call.value > 0) =>
             /\ call.ret = "false"
             /\ balances = pre.balances

\* The test's "charlie cannot send on behalf of bob": from has granted the
\* destination enough and holds enough, the caller is a third account with
\* no grant, and the call is rejected.
C15_Witness ==
    /\ call.op = "transfer_from"
    /\ call.caller \notin {call.from, call.to}
    /\ call.from # call.to
    /\ call.value > 0
    /\ PreAllowance(call.from, call.caller) = 0
    /\ PreAllowance(call.from, call.to) >= call.value
    /\ PreBalance(call.from) >= call.value
    /\ call.ret = "false"

\* C16 (Transfer event payload and the issuance marker): the first event of
\* every log is the issuance Transfer with from absent; every later Transfer
\* event has from = Some(source) and to = Some(destination), and the one a
\* successful transfer or transfer_from emits carries its source, its
\* destination and its value; no event after the first has from absent.
C16_TransferEventPayload ==
    deployed =>
        /\ Len(events) >= 1
        /\ events[1].event = "Transfer"
        /\ events[1].from = None
        /\ events[1].value = init_value
        /\ \A i \in 2..Len(events) :
             events[i].event = "Transfer" =>
                /\ events[i].from # None
                /\ \E a \in Accounts : events[i].from = Some(a)
                /\ \E a \in Accounts : events[i].to = Some(a)
        /\ (call.op \in {"transfer", "transfer_from"} /\ call.ret = "true") =>
             events[Len(events)] = Transfer(Some(call.from), Some(call.to), call.value)

\* A log of the issuance and two later Transfer events between distinct
\* accounts, the last one emitted by a transfer of a positive value.
C16_Witness ==
    /\ Len(events) = 3
    /\ events[2].event = "Transfer"
    /\ events[3].event = "Transfer"
    /\ events[3].from # events[3].to
    /\ events[3].value > 0
    /\ call.op = "transfer"
    /\ call.ret = "true"

\* C17 (Read-only queries): total_supply(), balance_of(owner) and
\* allowance(owner, spender) leave balances, allowances, total supply and the
\* event log unchanged and return the stored value, or 0 where no entry is
\* stored.
C17_ReadOnlyQueries ==
    /\ call.op \in {"total_supply", "balance_of", "allowance"} =>
         /\ balances = pre.balances
         /\ allowances = pre.allowances
         /\ total_supply = pre.total_supply
         /\ events = pre.events
         /\ call.out \in Balance
    /\ call.op = "total_supply" => call.out = total_supply
    /\ call.op = "balance_of" =>
         call.out = IF call.owner \in DOMAIN balances
                    THEN balances[call.owner] ELSE 0
    /\ call.op = "allowance" =>
         call.out = IF <<call.owner, call.spender>> \in DOMAIN allowances
                    THEN allowances[<<call.owner, call.spender>>] ELSE 0

\* allowance(owner, spender) returning a stored positive grant while the
\* reverse pair has no entry.
C17_Witness ==
    /\ call.op = "allowance"
    /\ call.out > 0
    /\ <<call.owner, call.spender>> \in DOMAIN allowances
    /\ <<call.spender, call.owner>> \notin DOMAIN allowances
    /\ call.owner # call.spender

\* C18 (Bounded delegated spending): for every owner o and spender s, the
\* total value that successful transfer_from calls of s have moved out of
\* o's balance since the latest approve by o for s (since deploy if there
\* was none) never exceeds the value of that approve (0 if there was none).
C18_BoundedDelegatedSpending ==
    \A p \in Accounts \X Accounts : delegated[p].moved <= delegated[p].approved

\* A grant of 2 used up by two successful transfer_from calls of 1 each, made
\* by a spender other than the owner.
C18_Witness ==
    /\ call.op = "transfer_from"
    /\ call.ret = "true"
    /\ call.value = 1
    /\ call.caller # call.from
    /\ Len(events) = 4
    /\ events[2] = Approval(call.from, call.caller, 2)
    /\ events[3].event = "Transfer"
    /\ events[3].value = 1
    /\ delegated[<<call.from, call.caller>>] = [approved |-> 2, moved |-> 2]
    /\ PostAllowance(call.from, call.caller) = 0

\* C19 (Third-party balances are untouched): a transfer or transfer_from,
\* whether it succeeds or fails, changes balance_of(a) for no account a other
\* than its source and its destination; in particular the caller of
\* transfer_from keeps its balance when it is neither.
C19_ThirdPartyBalancesUntouched ==
    call.op \in {"transfer", "transfer_from"} =>
        \A a \in Accounts \ {call.from, call.to} : PostBalance(a) = PreBalance(a)

\* A successful transfer_from of a positive value whose caller holds tokens
\* and is neither the source nor the destination.
C19_Witness ==
    /\ call.op = "transfer_from"
    /\ call.ret = "true"
    /\ call.value > 0
    /\ call.caller \notin {call.from, call.to}
    /\ call.from # call.to
    /\ PreBalance(call.caller) > 0
    /\ PostBalance(call.caller) = PreBalance(call.caller)

====
